---- MODULE Spec2Model ----
(***************************************************************************)
(* A model of netsuitesdk/client.py: the NetSuiteClient session            *)
(* (login / logout / token based authentication), the construction of the  *)
(* SOAP headers of every outbound request, the request wrappers (get,      *)
(* getAll, search, searchMoreWithId, upsert, upsertList) and the           *)
(* translation of non-success statuses into errors.                        *)
(*                                                                         *)
(* The remote service (the zeep service proxy) is the environment: each    *)
(* operation draws the reply of every remote call it makes from a small    *)
(* set of replies.  `calls` is what a stub transport would record during   *)
(* the operation that ran last; `trace` is the history of the session      *)
(* events (successful remote logins, remote logouts) since construction.   *)
(***************************************************************************)
EXTENDS Integers, Sequences, FiniteSets, TLC

VARIABLES
    account,              \* self._account (None or a string), line 59
    is_authenticated,     \* self._is_authenticated
    user,                 \* self._user
    roles,                \* self._roles (absent until the first successful login)
    passport,             \* self._passport
    app_info,             \* self._app_info
    consumer_key,         \* self._consumer_key
    consumer_secret,      \* self._consumer_secret
    token_key,            \* self._token_key
    token_secret,         \* self._token_secret
    signature_algorithm,  \* self._signature_algorithm
    search_preferences,   \* self._search_preferences
    calls,                \* remote calls issued by the operation that ran last
    trace,                \* session events of the remote service, oldest first
    last,                 \* the operation that ran last and how it ended
    prefs_set,            \* arguments of the latest set_search_preferences call
    cursor,               \* the PaginatedSearch at hand: its current result page
    drawn,                \* values random.randint and time.time() gave the last operation
    walk,                 \* where a paginated_search call stands, and what it showed
    codec                 \* the latest to_json call: its arguments and what it returned

vars == <<account, is_authenticated, user, roles, passport, app_info,
          consumer_key, consumer_secret, token_key, token_secret,
          signature_algorithm, search_preferences, calls, trace, last,
          prefs_set, cursor, drawn, walk, codec>>

session == <<is_authenticated, user, roles>>
token_credentials == <<consumer_key, consumer_secret, token_key, token_secret,
                       signature_algorithm>>
\* the state of the utility functions (to_json, paginated_search)
utility == <<walk, codec>>

(***************************************************************************)
(* Bounds of the model.                                                    *)
(***************************************************************************)
MaxTrace == 3     \* session events recorded before the model stops
MaxNonce == 2     \* distinct nonces random.randint can produce
MaxPages == 3     \* pages of the largest search result
MaxRecords == 2   \* records of the longest upsertList
MaxFields == 3    \* fields of the largest record handed to to_json

(***************************************************************************)
(* Optional values: Python's None and a present value.                     *)
(***************************************************************************)
None == <<>>
Some(x) == <<x>>
IsNone(o) == o = <<>>
The(o) == o[1]

(***************************************************************************)
(* Inputs.                                                                 *)
(***************************************************************************)
Accounts == {None, Some("ACCT")}
Emails == {"ann@x", "bob@x"}
Password == "pw"
RoleId == "3"
ApplicationId == "app"
Algorithms == {"HMAC-SHA1", "HMAC-SHA256", "MD5"}
\* arguments of set_search_preferences: (body_fields_only, page_size, return_search_columns)
PreferenceChoices == {<<TRUE, 5, FALSE>>, <<FALSE, 10, TRUE>>}
Nonces == 0 .. (MaxNonce - 1)
Timestamps == {1000}   \* int(time.time()): the clock stands still in this model

(***************************************************************************)
(* Replies of the remote service.  A status is {isSuccess, statusDetail};  *)
(* a non-success status carries at least one {message, code} entry.        *)
(***************************************************************************)
Detail1 == [message |-> "m1", code |-> "c1"]
Detail2 == [message |-> "m2", code |-> "c2"]
StatusOk == [isSuccess |-> TRUE, statusDetail |-> <<>>]
StatusFailed == {[isSuccess |-> FALSE, statusDetail |-> <<Detail1>>],
                 [isSuccess |-> FALSE, statusDetail |-> <<Detail2, Detail1>>]}
Statuses == {StatusOk} \cup StatusFailed
Faults == {[message |-> "fault", code |-> "f1"]}

NoError == [cls |-> "none", message |-> <<>>, code |-> None]
Error(cls, message, code) == [cls |-> cls, message |-> message, code |-> code]

Response(status, body) == [fault |-> None, status |-> status, body |-> body]
FaultReply(f) == [fault |-> Some(f), status |-> StatusOk, body |-> None]
IsFault(reply) == ~IsNone(reply.fault)
FaultReplies == {FaultReply(f) : f \in Faults}

\* wsRoleList of a login response: the roles of the user, one flagged isLoggedInRole
WsRole(name, id, loggedIn) ==
    [role |-> [name |-> name, internalId |-> id], isDefault |-> FALSE,
     isInactive |-> FALSE, isLoggedInRole |-> loggedIn]
RoleLists == {<<WsRole("admin", "3", TRUE), WsRole("clerk", "7", FALSE)>>}
LoginBodies == {[userId |-> [name |-> "ann", internalId |-> "1"], wsRoleList |-> rl] :
                    rl \in RoleLists}
LoginReplies == {Response(StatusOk, Some(b)) : b \in LoginBodies}
                \cup {Response(st, None) : st \in StatusFailed}
                \cup FaultReplies
LogoutReplies == {Response(st, None) : st \in Statuses} \cup FaultReplies

(***************************************************************************)
(* A remote call as the transport sees it: the operation's name, the       *)
(* _soapheaders mapping (a function from header names to values) and the   *)
(* arguments that matter here.                                             *)
(***************************************************************************)
Call(name, headers, args) == [name |-> name, headers |-> headers, args |-> args]
NoHeaders == <<>>
NoArgs == <<>>

(***************************************************************************)
(* How an operation ended: returned `value` or raised `error`; `reply` is  *)
(* the reply of the remote call the operation is about (None when that     *)
(* call was never issued).                                                 *)
(***************************************************************************)
Returned(op, value, reply) ==
    [op |-> op, outcome |-> "return", error |-> NoError, value |-> value, reply |-> reply]
Raised(op, error, reply) ==
    [op |-> op, outcome |-> "raise", error |-> error, value |-> None, reply |-> reply]

(***************************************************************************)
(* NetSuiteClient.set_search_preferences                                   *)
(***************************************************************************)
SearchPreferences(body_fields_only, page_size, return_search_columns) ==
    [bodyFieldsOnly |-> body_fields_only, pageSize |-> page_size,
     returnSearchColumns |-> return_search_columns]

\* set_search_preferences with the two flags passed in each other's place
set_search_preferences_swapped(body_fields_only, page_size, return_search_columns) ==
    /\ search_preferences' =
           SearchPreferences(return_search_columns, page_size, body_fields_only)
    /\ prefs_set' = Some(<<body_fields_only, page_size, return_search_columns>>)
    /\ calls' = <<>>
    /\ last' = Returned("set_search_preferences", None, None)
    /\ drawn' = <<>>
    /\ UNCHANGED <<account, session, passport, app_info, token_credentials, trace,
                   cursor, utility>>

set_search_preferences(body_fields_only, page_size, return_search_columns) ==
    /\ search_preferences' =
           SearchPreferences(body_fields_only, page_size, return_search_columns)
    /\ prefs_set' = Some(<<body_fields_only, page_size, return_search_columns>>)
    /\ calls' = <<>>
    /\ last' = Returned("set_search_preferences", None, None)
    /\ drawn' = <<>>
    /\ UNCHANGED <<account, session, passport, app_info, token_credentials, trace,
                   cursor, utility>>

(***************************************************************************)
(* NetSuiteClient.connect_tba                                              *)
(***************************************************************************)
\* connect_tba that also drops the session
connect_tba_dropping_session(ck, cs, tk, ts, algorithm) ==
    /\ consumer_key' = Some(ck)
    /\ consumer_secret' = Some(cs)
    /\ token_key' = Some(tk)
    /\ token_secret' = Some(ts)
    /\ signature_algorithm' = Some(algorithm)
    /\ is_authenticated' = FALSE
    /\ user' = None
    /\ calls' = <<>>
    /\ last' = Returned("connect_tba", None, None)
    /\ drawn' = <<>>
    /\ UNCHANGED <<account, roles, passport, app_info, search_preferences,
                   trace, prefs_set, cursor, utility>>

connect_tba(ck, cs, tk, ts, algorithm) ==
    /\ consumer_key' = Some(ck)
    /\ consumer_secret' = Some(cs)
    /\ token_key' = Some(tk)
    /\ token_secret' = Some(ts)
    /\ signature_algorithm' = Some(algorithm)
    /\ calls' = <<>>
    /\ last' = Returned("connect_tba", None, None)
    /\ drawn' = <<>>
    /\ UNCHANGED <<account, session, passport, app_info, search_preferences,
                   trace, prefs_set, cursor, utility>>

(***************************************************************************)
(* NetSuiteClient._request_error                                           *)
(***************************************************************************)
\* _request_error that forgets the code of the detail
_request_error_without_code(service_name, detail, error_cls) ==
    Error(IF IsNone(error_cls) THEN "NetSuiteRequestError" ELSE The(error_cls),
          <<"An error occured in a ", service_name, " request: ", detail.message>>,
          None)

_request_error(service_name, detail, error_cls) ==
    Error(IF IsNone(error_cls) THEN "NetSuiteRequestError" ELSE The(error_cls),
          <<"An error occured in a ", service_name, " request: ", detail.message>>,
          Some(detail.code))

(***************************************************************************)
(* NetSuiteClient._generate_token_passport.  The keyed hash and its base64 *)
(* text are kept symbolic: a term over the digest, the key and the base    *)
(* string, so that two signatures are equal only if all three are.         *)
(***************************************************************************)
Hmac(digestmod, key, base_string) == <<"b64", digestmod, key, base_string>>

\* _generate_token_passport that signs and hands out the nonce it used first
_generate_token_passport_reusing_nonce(nonce, timestamp) ==
    LET key == <<consumer_secret, "&", token_secret>>
        parts == <<account, consumer_key, token_key>>
        base_string == <<The(account), The(consumer_key), The(token_key), 0, timestamp>>
        alg == The(signature_algorithm)
        TokenPassport(digestmod) ==
            [account |-> The(account), consumerKey |-> The(consumer_key),
             token |-> The(token_key), nonce |-> 0, timestamp |-> timestamp,
             signature |-> [value |-> Hmac(digestmod, key, base_string),
                            algorithm |-> alg]]
    IN  IF \E i \in 1..3 : IsNone(parts[i])
        THEN [raised |-> TRUE,
              error |-> Error("TypeError", <<"sequence item: expected str instance">>, None),
              value |-> None]
        ELSE IF alg = "HMAC-SHA256"
        THEN [raised |-> FALSE, error |-> NoError, value |-> Some(TokenPassport("sha256"))]
        ELSE IF alg = "HMAC-SHA1"
        THEN [raised |-> FALSE, error |-> NoError, value |-> Some(TokenPassport("sha1"))]
        ELSE [raised |-> TRUE,
              error |-> Error("NetSuiteError",
                              <<"signature_algorithm needs to be one of 'HMAC-SHA256', 'HMAC-SHA1'">>,
                              None),
              value |-> None]

_generate_token_passport(nonce, timestamp) ==
    LET key == <<consumer_secret, "&", token_secret>>
        parts == <<account, consumer_key, token_key>>
        base_string == <<The(account), The(consumer_key), The(token_key), nonce, timestamp>>
        alg == The(signature_algorithm)
        TokenPassport(digestmod) ==
            [account |-> The(account), consumerKey |-> The(consumer_key),
             token |-> The(token_key), nonce |-> nonce, timestamp |-> timestamp,
             signature |-> [value |-> Hmac(digestmod, key, base_string),
                            algorithm |-> alg]]
    IN  IF \E i \in 1..3 : IsNone(parts[i])
        THEN \* '&'.join of a list holding None
             [raised |-> TRUE,
              error |-> Error("TypeError", <<"sequence item: expected str instance">>, None),
              value |-> None]
        ELSE IF alg = "HMAC-SHA256"
        THEN [raised |-> FALSE, error |-> NoError, value |-> Some(TokenPassport("sha256"))]
        ELSE IF alg = "HMAC-SHA1"
        THEN [raised |-> FALSE, error |-> NoError, value |-> Some(TokenPassport("sha1"))]
        ELSE [raised |-> TRUE,
              error |-> Error("NetSuiteError",
                              <<"signature_algorithm needs to be one of 'HMAC-SHA256', 'HMAC-SHA1'">>,
                              None),
              value |-> None]

(***************************************************************************)
(* NetSuiteClient._build_soap_headers                                      *)
(***************************************************************************)
WithSearchPreferences(include_search_preferences, soapheaders) ==
    IF include_search_preferences
    THEN soapheaders @@ ("searchPreferences" :> search_preferences)
    ELSE soapheaders

\* _build_soap_headers that looks at the token credentials before the session
_build_soap_headers_token_first(include_search_preferences, nonce, timestamp) ==
    LET built(h) == [raised |-> FALSE, error |-> NoError,
                     headers |-> WithSearchPreferences(include_search_preferences, h)]
        tp == _generate_token_passport(nonce, timestamp)
    IN  IF ~IsNone(consumer_key)
        THEN IF tp.raised
             THEN [raised |-> TRUE, error |-> tp.error, headers |-> NoHeaders]
             ELSE built("tokenPassport" :> The(tp.value))
        ELSE IF is_authenticated
        THEN built(NoHeaders)
        ELSE IF ~IsNone(passport)
        THEN built("passport" :> The(passport))
        ELSE [raised |-> TRUE,
              error |-> Error("NetSuiteError",
                              <<"Must either login first or pass passport or tokenPassport to request header.">>,
                              None),
              headers |-> NoHeaders]

_build_soap_headers(include_search_preferences, nonce, timestamp) ==
    LET built(h) == [raised |-> FALSE, error |-> NoError,
                     headers |-> WithSearchPreferences(include_search_preferences, h)]
        tp == _generate_token_passport(nonce, timestamp)
    IN  IF is_authenticated
        THEN built(NoHeaders)
        ELSE IF ~IsNone(consumer_key)
        THEN IF tp.raised
             THEN [raised |-> TRUE, error |-> tp.error, headers |-> NoHeaders]
             ELSE built("tokenPassport" :> The(tp.value))
        ELSE IF ~IsNone(passport)
        THEN built("passport" :> The(passport))
        ELSE [raised |-> TRUE,
              error |-> Error("NetSuiteError",
                              <<"Must either login first or pass passport or tokenPassport to request header.">>,
                              None),
              headers |-> NoHeaders]

(***************************************************************************)
(* NetSuiteClient.logout, as the values it leaves behind and what it       *)
(* issues, given the reply of the remote logout.  login runs it too.       *)
(***************************************************************************)
\* logout that drops the session without calling the remote logout
logout_run_local_only(reply) ==
    IF ~is_authenticated
    THEN [called |-> FALSE, raised |-> FALSE, error |-> NoError, value |-> None,
          is_authenticated |-> is_authenticated, user |-> user]
    ELSE [called |-> FALSE, raised |-> FALSE, error |-> NoError, value |-> None,
          is_authenticated |-> FALSE, user |-> None]

\* logout that calls the remote logout and forgets to reset the session
logout_run_keeps_session(reply) ==
    IF ~is_authenticated
    THEN [called |-> FALSE, raised |-> FALSE, error |-> NoError, value |-> None,
          is_authenticated |-> is_authenticated, user |-> user]
    ELSE IF IsFault(reply)
    THEN [called |-> TRUE, raised |-> TRUE,
          error |-> Error("Fault", <<The(reply.fault).message>>, Some(The(reply.fault).code)),
          value |-> None, is_authenticated |-> is_authenticated, user |-> user]
    ELSE [called |-> TRUE, raised |-> FALSE, error |-> NoError,
          value |-> Some(reply.status), is_authenticated |-> is_authenticated, user |-> user]

\* logout without its guard: the remote logout is called in any session
logout_run_unguarded(reply) ==
    IF IsFault(reply)
    THEN [called |-> TRUE, raised |-> TRUE,
          error |-> Error("Fault", <<The(reply.fault).message>>, Some(The(reply.fault).code)),
          value |-> None, is_authenticated |-> is_authenticated, user |-> user]
    ELSE [called |-> TRUE, raised |-> FALSE, error |-> NoError,
          value |-> Some(reply.status), is_authenticated |-> FALSE, user |-> None]

\* logout that resets the flag and keeps the user
logout_run_keeping_user(reply) ==
    IF ~is_authenticated
    THEN [called |-> FALSE, raised |-> FALSE, error |-> NoError, value |-> None,
          is_authenticated |-> is_authenticated, user |-> user]
    ELSE IF IsFault(reply)
    THEN [called |-> TRUE, raised |-> TRUE,
          error |-> Error("Fault", <<The(reply.fault).message>>, Some(The(reply.fault).code)),
          value |-> None, is_authenticated |-> is_authenticated, user |-> user]
    ELSE [called |-> TRUE, raised |-> FALSE, error |-> NoError,
          value |-> Some(reply.status), is_authenticated |-> FALSE, user |-> user]

logout_run(reply) ==
    IF ~is_authenticated
    THEN [called |-> FALSE, raised |-> FALSE, error |-> NoError, value |-> None,
          is_authenticated |-> is_authenticated, user |-> user]
    ELSE IF IsFault(reply)
    THEN \* self._client.service.logout() raises: nothing after it runs
         [called |-> TRUE, raised |-> TRUE,
          error |-> Error("Fault", <<The(reply.fault).message>>, Some(The(reply.fault).code)),
          value |-> None, is_authenticated |-> is_authenticated, user |-> user]
    ELSE [called |-> TRUE, raised |-> FALSE, error |-> NoError,
          value |-> Some(reply.status), is_authenticated |-> FALSE, user |-> None]

\* the remote logout is called, and answers, only in an authenticated session
LogoutDraws == IF is_authenticated THEN LogoutReplies ELSE {Response(StatusOk, None)}

LogoutCalls(r) == IF r.called THEN <<Call("logout", NoHeaders, NoArgs)>> ELSE <<>>
LogoutEvents(r) == IF r.called THEN <<"logout">> ELSE <<>>

\* logout that also clears the Passport
logout_clearing_passport ==
    /\ is_authenticated => Len(trace) < MaxTrace
    /\ \E reply \in LogoutDraws :
         LET r == logout_run(reply)
         IN  /\ is_authenticated' = r.is_authenticated
             /\ user' = r.user
             /\ passport' = IF r.called /\ ~r.raised THEN None ELSE passport
             /\ calls' = LogoutCalls(r)
             /\ trace' = trace \o LogoutEvents(r)
             /\ last' = IF r.raised
                        THEN Raised("logout", r.error, Some(reply))
                        ELSE Returned("logout", r.value,
                                      IF r.called THEN Some(reply) ELSE None)
    /\ drawn' = <<>>
    /\ UNCHANGED <<account, roles, app_info, token_credentials,
                   search_preferences, prefs_set, cursor, utility>>

logout ==
    /\ is_authenticated => Len(trace) < MaxTrace
    /\ \E reply \in LogoutDraws :
         LET r == logout_run(reply)
         IN  /\ is_authenticated' = r.is_authenticated
             /\ user' = r.user
             /\ calls' = LogoutCalls(r)
             /\ trace' = trace \o LogoutEvents(r)
             /\ last' = IF r.raised
                        THEN Raised("logout", r.error, Some(reply))
                        ELSE Returned("logout", r.value,
                                      IF r.called THEN Some(reply) ELSE None)
    /\ drawn' = <<>>
    /\ UNCHANGED <<account, roles, passport, app_info, token_credentials,
                   search_preferences, prefs_set, cursor, utility>>

(***************************************************************************)
(* NetSuiteClient._log_roles: the WsRole list of the response and the last *)
(* entry flagged isLoggedInRole (None when no entry is flagged).           *)
(***************************************************************************)
_log_roles(response_body) ==
    LET ws == response_body.wsRoleList
        flagged == {i \in DOMAIN ws : ws[i].isLoggedInRole}
    IN  [roles |-> ws,
         logged_in_role |-> IF flagged = {} THEN None
                            ELSE Some(ws[CHOOSE i \in flagged : \A j \in flagged : j <= i])]

User(name, internalId, wsRole) == [name |-> name, internalId |-> internalId, wsRole |-> wsRole]
RecordRef(internalId) == [internalId |-> internalId]
Passport(email, password, role, acct) ==
    [email |-> email, password |-> password, role |-> role, account |-> acct]
ApplicationInfo(application_id) == [applicationId |-> application_id]

(***************************************************************************)
(* NetSuiteClient.login                                                    *)
(***************************************************************************)
login(email, password, role, application_id) ==
    /\ Len(trace) + (IF is_authenticated THEN 2 ELSE 1) <= MaxTrace
    /\ \E lo \in LogoutDraws, reply \in LoginReplies :
         LET new_passport == Some(Passport(email, password, RecordRef(role), account))
             out == logout_run(lo)
             new_app_info == Some(ApplicationInfo(application_id))
             login_call == Call("login", "applicationInfo" :> The(new_app_info),
                                <<The(new_passport)>>)
             ok == ~IsFault(reply) /\ reply.status.isSuccess
             lr == _log_roles(The(reply.body))
         IN  /\ passport' = new_passport
             /\ IF out.raised
                THEN \* the implicit logout raised, outside the try block
                     /\ is_authenticated' = out.is_authenticated
                     /\ user' = out.user
                     /\ UNCHANGED <<roles, app_info>>
                     /\ calls' = LogoutCalls(out)
                     /\ trace' = trace \o LogoutEvents(out)
                     /\ last' = Raised("login", out.error, None)
                ELSE /\ app_info' = new_app_info
                     /\ calls' = LogoutCalls(out) \o <<login_call>>
                     /\ IF IsFault(reply)
                        THEN /\ is_authenticated' = out.is_authenticated
                             /\ user' = out.user
                             /\ UNCHANGED roles
                             /\ trace' = trace \o LogoutEvents(out)
                             /\ last' = Raised("login",
                                               Error("NetSuiteLoginError",
                                                     <<The(reply.fault).message>>,
                                                     Some(The(reply.fault).code)),
                                               Some(reply))
                        ELSE IF ok
                        THEN /\ is_authenticated' = TRUE
                             /\ roles' = Some(lr.roles)
                             /\ user' = Some(User(The(reply.body).userId.name,
                                                  The(reply.body).userId.internalId,
                                                  lr.logged_in_role))
                             /\ trace' = trace \o LogoutEvents(out) \o <<"login">>
                             /\ last' = Returned("login", Some(reply), Some(reply))
                        ELSE /\ is_authenticated' = out.is_authenticated
                             /\ user' = out.user
                             /\ UNCHANGED roles
                             /\ trace' = trace \o LogoutEvents(out)
                             /\ last' = Raised("login",
                                               _request_error("login",
                                                              reply.status.statusDetail[1],
                                                              Some("NetSuiteLoginError")),
                                               Some(reply))
    /\ drawn' = <<>>
    /\ UNCHANGED <<account, token_credentials, search_preferences, prefs_set, cursor,
                   utility>>

\* random.randint and time.time() are called only when a token passport is
\* generated (lines 343-344 reach lines 236-237)
GeneratesTokenPassport == ~is_authenticated /\ ~IsNone(consumer_key)
NonceDraws == IF GeneratesTokenPassport THEN Nonces ELSE {0}
TimestampDraws == IF GeneratesTokenPassport THEN Timestamps ELSE {0}

(***************************************************************************)
(* NetSuiteClient.request: build the headers, then call the service.  The  *)
(* result is what request leaves: the call it issued (none when building   *)
(* the headers raised) and the response, or the error that propagates;     *)
(* and what compute_nonce and time.time() gave it, if they were called.    *)
(***************************************************************************)
request(name, args, nonce, timestamp, reply) ==
    LET include_search_preferences == (name = "search")
        h == _build_soap_headers(include_search_preferences, nonce, timestamp)
        d == IF GeneratesTokenPassport
             THEN <<[nonce |-> nonce, timestamp |-> timestamp]>>
             ELSE <<>>
    IN  IF h.raised
        THEN [raised |-> TRUE, error |-> h.error, calls |-> <<>>, response |-> None,
              reply |-> reply, drawn |-> d]
        ELSE IF IsFault(reply)
        THEN [raised |-> TRUE,
              error |-> Error("Fault", <<The(reply.fault).message>>,
                              Some(The(reply.fault).code)),
              calls |-> <<Call(name, h.headers, args)>>, response |-> None,
              reply |-> reply, drawn |-> d]
        ELSE [raised |-> FALSE, error |-> NoError,
              calls |-> <<Call(name, h.headers, args)>>, response |-> Some(reply),
              reply |-> reply, drawn |-> d]

\* request called by the client's user: the response is returned as it is
RawReplies == {Response(StatusOk, None)} \cup FaultReplies
raw_request(name) ==
    \E nonce \in NonceDraws, timestamp \in TimestampDraws, reply \in RawReplies :
      LET r == request(name, NoArgs, nonce, timestamp, reply)
      IN  /\ calls' = r.calls
          /\ drawn' = r.drawn
          /\ last' = IF r.raised
                     THEN Raised("request", r.error,
                                 IF r.calls = <<>> THEN None ELSE Some(r.reply))
                     ELSE Returned("request", r.response, r.response)
          /\ UNCHANGED <<account, session, passport, app_info, token_credentials,
                         search_preferences, trace, prefs_set, cursor, utility>>

\* what every request wrapper leaves alone: the client's fields
ClientUnchanged ==
    UNCHANGED <<account, session, passport, app_info, token_credentials,
                search_preferences, trace, prefs_set, codec>>

\* a wrapper's ending: the error of request, or the wrapper's own result
Ending(op, r, result) ==
    /\ calls' = r.calls
    /\ drawn' = r.drawn
    /\ last' = IF r.raised
               THEN Raised(op, r.error, IF r.calls = <<>> THEN None ELSE Some(r.reply))
               ELSE IF result.raised
               THEN Raised(op, result.error, r.response)
               ELSE Returned(op, result.value, r.response)
    /\ ClientUnchanged

Finish(op, r, result) == Ending(op, r, result) /\ UNCHANGED <<cursor, walk>>

Ok(value) == [raised |-> FALSE, error |-> NoError, value |-> value]
Fail(error) == [raised |-> TRUE, error |-> error, value |-> None]

(***************************************************************************)
(* Replies of the remote service to the record operations.                 *)
(***************************************************************************)
RecordTypes == {"Vendor"}
LowerFirst(t) == IF t = "Vendor" THEN "vendor" ELSE t
TheRecord == [internalId |-> "1", name |-> "acme"]
TheBaseRef == [type |-> "vendor", internalId |-> "1", externalId |-> "x"]
ReadReplies == {Response(StatusOk, Some([record |-> TheRecord]))}
               \cup {Response(st, None) : st \in StatusFailed} \cup FaultReplies
GetAllReplies == {Response(StatusOk, Some([recordList |-> [record |-> <<TheRecord>>]]))}
                 \cup {Response(st, None) : st \in StatusFailed} \cup FaultReplies
WriteReplies == {Response(StatusOk, Some([baseRef |-> TheBaseRef]))}
                \cup {Response(st, None) : st \in StatusFailed} \cup FaultReplies

(***************************************************************************)
(* NetSuiteClient.get                                                      *)
(***************************************************************************)
get_result(response) ==
    LET status == The(response).status
    IN  IF status.isSuccess
        THEN Ok(Some(The(The(response).body).record))
        ELSE Fail(_request_error("get", status.statusDetail[1], None))

get(recordType, internalId, externalId) ==
    LET record_type == LowerFirst(recordType)
        record_ref == IF ~IsNone(internalId)
                      THEN [type |-> record_type, internalId |-> internalId, externalId |-> None]
                      ELSE [type |-> record_type, internalId |-> None, externalId |-> externalId]
    IN  IF IsNone(internalId) /\ IsNone(externalId)
        THEN /\ calls' = <<>>
             /\ drawn' = <<>>
             /\ last' = Raised("get",
                               Error("ValueError",
                                     <<"Either internalId or externalId is necessary to make a get request.">>,
                                     None),
                               None)
             /\ ClientUnchanged
             /\ UNCHANGED <<cursor, walk>>
        ELSE \E nonce \in NonceDraws, timestamp \in TimestampDraws, reply \in ReadReplies :
               LET r == request("get", <<record_ref>>, nonce, timestamp, reply)
               IN  Finish("get", r, get_result(r.response))

(***************************************************************************)
(* NetSuiteClient.getAll                                                   *)
(***************************************************************************)
getAll_result(response) ==
    LET status == The(response).status
    IN  IF status.isSuccess
        THEN Ok(Some(The(The(response).body).recordList.record))
        ELSE Fail(_request_error("getAll", status.statusDetail[1], None))

getAll(recordType) ==
    \E nonce \in NonceDraws, timestamp \in TimestampDraws, reply \in GetAllReplies :
      LET r == request("getAll", <<[recordType |-> LowerFirst(recordType)]>>,
                       nonce, timestamp, reply)
      IN  Finish("getAll", r, getAll_result(r.response))

(***************************************************************************)
(* NetSuiteClient.upsert                                                   *)
(***************************************************************************)
upsert_result(response) ==
    LET status == The(response).status
    IN  IF status.isSuccess
        THEN Ok(Some(The(The(response).body).baseRef))
        ELSE Fail(_request_error("upsert", status.statusDetail[1], None))

upsert(record) ==
    \E nonce \in NonceDraws, timestamp \in TimestampDraws, reply \in WriteReplies :
      LET r == request("upsert", <<record>>, nonce, timestamp, reply)
      IN  Finish("upsert", r, upsert_result(r.response))

(***************************************************************************)
(* NetSuiteClient.upsertList: one write response per record, walked in     *)
(* list order; the first non-success status raises.                        *)
(***************************************************************************)
WriteResponses == {[status |-> StatusOk, baseRef |-> Some(TheBaseRef)]}
                  \cup {[status |-> st, baseRef |-> None] : st \in StatusFailed}
WriteResponseLists(n) == [1..n -> WriteResponses]
UpsertListReplies(n) ==
    {Response(StatusOk, Some([writeResponse |-> ws])) : ws \in WriteResponseLists(n)}
    \cup FaultReplies

\* upsertList that passes over a failed record and returns the references of
\* the records that succeeded
RECURSIVE upsertList_loop_collecting(_, _, _)
upsertList_loop_collecting(responses, i, record_refs) ==
    IF i > Len(responses)
    THEN Ok(Some(record_refs))
    ELSE IF responses[i].status.isSuccess
    THEN upsertList_loop_collecting(responses, i + 1,
                                    Append(record_refs, The(responses[i].baseRef)))
    ELSE upsertList_loop_collecting(responses, i + 1, record_refs)

RECURSIVE upsertList_loop(_, _, _)
upsertList_loop(responses, i, record_refs) ==
    IF i > Len(responses)
    THEN Ok(Some(record_refs))
    ELSE IF responses[i].status.isSuccess
    THEN upsertList_loop(responses, i + 1, Append(record_refs, The(responses[i].baseRef)))
    ELSE Fail(_request_error("upsertList", responses[i].status.statusDetail[1], None))

upsertList_result(response) ==
    upsertList_loop(The(The(response).body).writeResponse, 1, <<>>)

upsertList(records) ==
    \E nonce \in NonceDraws, timestamp \in TimestampDraws,
       reply \in UpsertListReplies(Len(records)) :
      LET r == request("upsertList", <<records>>, nonce, timestamp, reply)
      IN  Finish("upsertList", r, upsertList_result(r.response))

(***************************************************************************)
(* The remote search service.  A search is identified by its searchId; in  *)
(* this model the searchId of a search is also the number of its pages     *)
(* (0: nothing found, no recordList).  searchMoreWithId answers with the   *)
(* page asked for when 1 <= pageIndex <= totalPages, and with a            *)
(* non-success status otherwise; any call may also fail for other reasons. *)
(***************************************************************************)
SearchIds == 0 .. MaxPages
PageIndexes == 0 .. (MaxPages + 1)
TotalPagesOf(searchId) == searchId
PageRecords(searchId, pageIndex) == <<[search |-> searchId, page |-> pageIndex]>>
SearchResult(searchId, pageIndex) ==
    [searchId |-> searchId, totalPages |-> TotalPagesOf(searchId), pageIndex |-> pageIndex,
     recordList |-> IF TotalPagesOf(searchId) = 0 THEN None
                    ELSE Some([record |-> PageRecords(searchId, pageIndex)])]
SearchReplies ==
    {Response(StatusOk, Some(SearchResult(sid, 1))) : sid \in SearchIds}
    \cup {Response(st, None) : st \in StatusFailed} \cup FaultReplies
PageInRange(searchId, pageIndex) == 1 <= pageIndex /\ pageIndex <= TotalPagesOf(searchId)
SearchMoreReplies(searchId, pageIndex) ==
    (IF PageInRange(searchId, pageIndex)
     THEN {Response(StatusOk, Some(SearchResult(searchId, pageIndex)))}
     ELSE {})
    \cup {Response(st, None) : st \in StatusFailed} \cup FaultReplies

(***************************************************************************)
(* NetSuiteClient.search                                                   *)
(***************************************************************************)
WithRecords(result, records) ==
    [searchId |-> result.searchId, totalPages |-> result.totalPages,
     pageIndex |-> result.pageIndex, recordList |-> result.recordList,
     records |-> records]

search_result(response) ==
    LET result == The(The(response).body)
        status == The(response).status
    IN  IF status.isSuccess
        THEN IF ~IsNone(result.recordList)
             THEN Ok(Some(WithRecords(result, Some(The(result.recordList).record))))
             ELSE Ok(Some(WithRecords(result, None)))
        ELSE Fail(_request_error("search", status.statusDetail[1], None))

search(searchRecord) ==
    \E nonce \in NonceDraws, timestamp \in TimestampDraws, reply \in SearchReplies :
      LET r == request("search", <<searchRecord>>, nonce, timestamp, reply)
      IN  Finish("search", r, search_result(r.response))

(***************************************************************************)
(* NetSuiteClient.searchMoreWithId                                         *)
(***************************************************************************)
\* searchMoreWithId without its else branch: a non-success status returns None
searchMoreWithId_result_unraised(response) ==
    LET result == The(The(response).body)
        status == The(response).status
    IN  IF status.isSuccess
        THEN Ok(Some(WithRecords(result, Some(The(result.recordList).record))))
        ELSE Ok(None)

searchMoreWithId_result(response) ==
    LET result == The(The(response).body)
        status == The(response).status
    IN  IF status.isSuccess
        THEN Ok(Some(WithRecords(result, Some(The(result.recordList).record))))
        ELSE Fail(_request_error("searchMoreWithId", status.statusDetail[1], None))

searchMoreWithId(searchId, pageIndex) ==
    \E nonce \in NonceDraws, timestamp \in TimestampDraws,
       reply \in SearchMoreReplies(searchId, pageIndex) :
      LET r == request("searchMoreWithId", <<searchId, pageIndex>>, nonce, timestamp, reply)
      IN  Finish("searchMoreWithId", r, searchMoreWithId_result(r.response))

(***************************************************************************)
(* PaginatedSearch (netsuitesdk/utils.py): the cursor over one search.     *)
(* Its construction issues the first search through NetSuiteClient.search  *)
(* and keeps the result page; goto_page is a no-op on the current page     *)
(* and otherwise replaces the page by NetSuiteClient.searchMoreWithId's.   *)
(***************************************************************************)
PaginatedSearch(type_name) ==
    \E nonce \in NonceDraws, timestamp \in TimestampDraws, reply \in SearchReplies :
      LET r == request("search", <<[type |-> type_name]>>, nonce, timestamp, reply)
          result == search_result(r.response)
      IN  /\ Ending("PaginatedSearch", r, result)
          /\ cursor' = IF r.raised \/ result.raised THEN cursor ELSE result.value

goto_page(page_index) ==
    /\ ~IsNone(cursor)
    /\ IF The(cursor).pageIndex = page_index
       THEN /\ calls' = <<>>
            /\ drawn' = <<>>
            /\ last' = Returned("goto_page", None, None)
            /\ ClientUnchanged
            /\ UNCHANGED cursor
       ELSE \E nonce \in NonceDraws, timestamp \in TimestampDraws,
               reply \in SearchMoreReplies(The(cursor).searchId, page_index) :
              LET r == request("searchMoreWithId", <<The(cursor).searchId, page_index>>,
                               nonce, timestamp, reply)
                  result == searchMoreWithId_result(r.response)
              IN  /\ Ending("goto_page", r, result)
                  /\ cursor' = IF r.raised \/ result.raised THEN cursor ELSE result.value

(***************************************************************************)
(* NetSuiteClient.to_json.  record.__values__ is an ordered mapping: the    *)
(* fields of the record in their declaration order, each a pair of the     *)
(* field's name and its value (None when the field is not set).  A mapping *)
(* built by to_json is a sequence of such pairs in insertion order.        *)
(***************************************************************************)
FieldNames == <<"internalId", "name", "email", "phone">>
FieldValues == {None, Some("x"), Some("")}
RecordOf(values) == [i \in DOMAIN values |-> <<FieldNames[i], values[i]>>]
Records == UNION {{RecordOf(vs) : vs \in [1..n -> FieldValues]} : n \in 0..MaxFields}

\* to_json testing the truth of a value (if value:) and not its presence
to_json_keeping_truthy(record, include_none_values) ==
    LET truthy(item) == ~IsNone(item[2]) /\ The(item[2]) # ""
    IN  IF include_none_values THEN record ELSE SelectSeq(record, truthy)

RECURSIVE to_json_loop(_, _, _)
to_json_loop(items, i, values) ==
    IF i > Len(items)
    THEN values
    ELSE IF ~IsNone(items[i][2])
    THEN to_json_loop(items, i + 1, Append(values, items[i]))
    ELSE to_json_loop(items, i + 1, values)

to_json(record, include_none_values) ==
    IF include_none_values
    THEN record
    ELSE to_json_loop(record, 1, <<>>)

(***************************************************************************)
(* NetSuiteClient.paginated_search, in the steps at which it can be        *)
(* observed: from the call to its first input() (or to its end), and from  *)
(* one input() to the next.  walk.pc is "input" while the call waits for   *)
(* the user, and otherwise how the latest call ended ("exhausted": the     *)
(* loop ran out, "quit": the user answered 'q', "raised"); walk.i is the   *)
(* loop variable, walk.visited the page indexes handed to goto_page and    *)
(* walk.shown the records handed to print_records, in order.  The          *)
(* PaginatedSearch it builds is the cursor of this model.                  *)
(***************************************************************************)
Waiting(op, reply) ==
    [op |-> op, outcome |-> "input", error |-> NoError, value |-> None, reply |-> reply]
Answers == {"q", "n"}
\* for i in range(2, total_pages): is there an iteration for i
InRange(i, total_pages) == 2 <= i /\ i < total_pages

paginated_search_start(type_name) ==
    /\ walk.pc # "input"
    /\ \E nonce \in NonceDraws, timestamp \in TimestampDraws, reply \in SearchReplies :
         LET r == request("search", <<[type |-> type_name]>>, nonce, timestamp, reply)
             result == search_result(r.response)
             built == ~r.raised /\ ~result.raised
             page == The(result.value)
             more == InRange(2, page.totalPages)
             not_iterable == Error("TypeError", <<"'NoneType' object is not iterable">>, None)
         IN  /\ calls' = r.calls
             /\ drawn' = r.drawn
             /\ ClientUnchanged
             /\ cursor' = IF built THEN result.value ELSE cursor
             /\ IF ~built
                THEN /\ walk' = [pc |-> "raised", i |-> 0, visited |-> <<>>, shown |-> <<>>]
                     /\ last' = IF r.raised
                                THEN Raised("paginated_search", r.error,
                                            IF r.calls = <<>> THEN None ELSE Some(r.reply))
                                ELSE Raised("paginated_search", result.error, r.response)
                ELSE IF IsNone(page.records)
                THEN \* print_records iterates over records
                     /\ walk' = [pc |-> "raised", i |-> 0, visited |-> <<>>, shown |-> <<>>]
                     /\ last' = Raised("paginated_search", not_iterable, r.response)
                ELSE /\ walk' = [pc |-> IF more THEN "input" ELSE "exhausted",
                                  i |-> 2, visited |-> <<>>, shown |-> The(page.records)]
                     /\ last' = IF more
                                THEN Waiting("paginated_search", r.response)
                                ELSE Returned("paginated_search", None, r.response)

paginated_search_next(inp) ==
    /\ walk.pc = "input"
    /\ IF inp = "q"
       THEN /\ walk' = [walk EXCEPT !.pc = "quit"]
            /\ calls' = <<>>
            /\ drawn' = <<>>
            /\ last' = Returned("paginated_search", None, None)
            /\ ClientUnchanged
            /\ UNCHANGED cursor
       ELSE \E nonce \in NonceDraws, timestamp \in TimestampDraws,
               reply \in SearchMoreReplies(The(cursor).searchId, walk.i) :
              LET r == request("searchMoreWithId", <<The(cursor).searchId, walk.i>>,
                               nonce, timestamp, reply)
                  result == searchMoreWithId_result(r.response)
                  moved == ~r.raised /\ ~result.raised
                  page == The(result.value)
                  more == InRange(walk.i + 1, The(cursor).totalPages)
              IN  /\ calls' = r.calls
                  /\ drawn' = r.drawn
                  /\ ClientUnchanged
                  /\ cursor' = IF moved THEN result.value ELSE cursor
                  /\ IF ~moved
                     THEN /\ walk' = [walk EXCEPT !.pc = "raised",
                                                  !.visited = Append(@, walk.i)]
                          /\ last' = IF r.raised
                                     THEN Raised("paginated_search", r.error,
                                                 IF r.calls = <<>> THEN None
                                                 ELSE Some(r.reply))
                                     ELSE Raised("paginated_search", result.error,
                                                 r.response)
                     ELSE /\ walk' = [pc |-> IF more THEN "input" ELSE "exhausted",
                                       i |-> walk.i + 1,
                                       visited |-> Append(walk.visited, walk.i),
                                       shown |-> walk.shown \o The(page.records)]
                          /\ last' = IF more
                                     THEN Waiting("paginated_search", r.response)
                                     ELSE Returned("paginated_search", None, r.response)

(***************************************************************************)
(* The utility functions before their first call: no paginated_search is   *)
(* under way and to_json was never called.                                 *)
(***************************************************************************)
NotWalking == [pc |-> "idle", i |-> 0, visited |-> <<>>, shown |-> <<>>]
NoCodec == [record |-> <<>>, include_none_values |-> FALSE, returned |-> None]

(***************************************************************************)
(* The client after NetSuiteClient.__init__ (lines 33-42 and 85-88).       *)
(***************************************************************************)
InitClient ==
    /\ account \in Accounts
    /\ is_authenticated = FALSE
    /\ user = None
    /\ roles = None
    /\ passport = None
    /\ app_info = None
    /\ consumer_key = None
    /\ consumer_secret = None
    /\ token_key = None
    /\ token_secret = None
    /\ signature_algorithm = None
    /\ search_preferences = SearchPreferences(TRUE, 5, FALSE)
    /\ calls = <<>>
    /\ trace = <<>>
    /\ last = Returned("__init__", None, None)
    /\ prefs_set = None
    /\ cursor = None
    /\ drawn = <<>>

Init ==
    /\ InitClient
    /\ walk = NotWalking
    /\ codec = NoCodec

SetSearchPreferences ==
    \E c \in PreferenceChoices : set_search_preferences(c[1], c[2], c[3])
ConnectTba == \E alg \in Algorithms : connect_tba("ck", "cs", "tk", "ts", alg)
Login == \E e \in Emails : login(e, Password, RoleId, ApplicationId)
Logout == logout
Request == \E name \in {"get", "search"} : raw_request(name)
Get == \E rt \in RecordTypes, i \in {None, Some("1")}, e \in {None, Some("x")} : get(rt, i, e)
GetAll == \E rt \in RecordTypes : getAll(rt)
Upsert == upsert(TheRecord)
UpsertList == \E n \in 1..MaxRecords : upsertList([i \in 1..n |-> TheRecord])
Search == search([type |-> "VendorSearchBasic"])
SearchMoreWithId == \E i \in PageIndexes : searchMoreWithId(MaxPages, i)

Next ==
    \/ SetSearchPreferences
    \/ ConnectTba
    \/ Login
    \/ Logout
    \/ Request
    \/ Get
    \/ GetAll
    \/ Upsert
    \/ UpsertList
    \/ Search
    \/ SearchMoreWithId

Spec == Init /\ [][Next]_vars

(***************************************************************************)
(* The client driven through a PaginatedSearch: the session operations     *)
(* and the cursor's.                                                       *)
(***************************************************************************)
NewPaginatedSearch == PaginatedSearch("Vendor") /\ UNCHANGED walk
GotoPage == (\E i \in PageIndexes : goto_page(i)) /\ UNCHANGED walk

NextPaging ==
    \/ ConnectTba
    \/ Login
    \/ Logout
    \/ NewPaginatedSearch
    \/ GotoPage

SpecPaging == Init /\ [][NextPaging]_vars

(***************************************************************************)
(* The client driven through paginated_search: the session operations,     *)
(* which wait while a paginated_search call waits for the user, and the    *)
(* steps of the call.                                                      *)
(***************************************************************************)
WalkConnectTba == walk.pc # "input" /\ ConnectTba
WalkLogin == walk.pc # "input" /\ Login
WalkLogout == walk.pc # "input" /\ Logout
PaginatedSearchStart == paginated_search_start("Vendor")
PaginatedSearchNext == \E inp \in Answers : paginated_search_next(inp)

NextWalk ==
    \/ WalkConnectTba
    \/ WalkLogin
    \/ WalkLogout
    \/ PaginatedSearchStart
    \/ PaginatedSearchNext

SpecWalk == Init /\ [][NextWalk]_vars

(***************************************************************************)
(* to_json applied to a record: the record and the flag are the arguments  *)
(* of the call, drawn when the client is set up; the call keeps what       *)
(* to_json returned.                                                       *)
(***************************************************************************)
CodecInputs ==
    {[record |-> rec, include_none_values |-> b, returned |-> None] :
       rec \in Records, b \in BOOLEAN}

InitCodec ==
    /\ InitClient
    /\ walk = NotWalking
    /\ codec \in CodecInputs

ToJson ==
    LET values == to_json(codec.record, codec.include_none_values)
    IN  /\ codec' = [codec EXCEPT !.returned = Some(values)]
        /\ calls' = <<>>
        /\ drawn' = <<>>
        /\ last' = Returned("to_json", Some(values), None)
        /\ UNCHANGED <<account, session, passport, app_info, token_credentials,
                       search_preferences, trace, prefs_set, cursor, walk>>

NextCodec == ToJson

SpecCodec == InitCodec /\ [][NextCodec]_vars

(***************************************************************************)
(* Properties.                                                             *)
(***************************************************************************)
CredentialKeys(headers) == DOMAIN headers \cap {"passport", "tokenPassport"}
RequestOps == {"request", "get", "getAll", "search", "searchMoreWithId", "upsert",
               "upsertList", "PaginatedSearch", "goto_page"}
\* the operation that ran last went through NetSuiteClient.request
ThroughRequest ==
    /\ last.op \in RequestOps
    /\ ~(last.op = "get" /\ last.error.cls = "ValueError")
    /\ ~(last.op = "goto_page" /\ last.outcome = "return" /\ calls = <<>>)
ConfigurationError(error) == error.cls = "NetSuiteError"
SigningError(error) == error.cls \in {"NetSuiteError", "TypeError"}
SupportedAlgorithms == {"HMAC-SHA1", "HMAC-SHA256"}

\* C1: the headers of an outbound request hold at most one credential key, chosen
\* by strict precedence: none when the session is authenticated; tokenPassport
\* only when it is not and token credentials are configured (the call then
\* either carries a tokenPassport or failed to sign, and never falls back to the
\* passport); passport only (the client's Passport) when it is not, no token
\* credentials are configured and a Passport exists; and with none of these the
\* call fails with the configuration error before any remote call.
C1_HeaderPrecedence ==
    ThroughRequest =>
      /\ \A i \in DOMAIN calls :
           Cardinality(CredentialKeys(calls[i].headers)) <= 1
      /\ is_authenticated =>
           /\ Len(calls) = 1
           /\ CredentialKeys(calls[1].headers) = {}
      /\ (~is_authenticated /\ ~IsNone(consumer_key)) =>
           IF calls = <<>>
           THEN last.outcome = "raise" /\ SigningError(last.error)
           ELSE /\ Len(calls) = 1
                /\ CredentialKeys(calls[1].headers) = {"tokenPassport"}
      /\ (~is_authenticated /\ IsNone(consumer_key) /\ ~IsNone(passport)) =>
           /\ Len(calls) = 1
           /\ CredentialKeys(calls[1].headers) = {"passport"}
           /\ calls[1].headers["passport"] = The(passport)
      /\ (~is_authenticated /\ IsNone(consumer_key) /\ IsNone(passport)) =>
           /\ calls = <<>>
           /\ last.outcome = "raise"
           /\ ConfigurationError(last.error)
           /\ last.error.message[1] =
                "Must either login first or pass passport or tokenPassport to request header."

\* a request went out of an authenticated session that also holds token
\* credentials and a Passport, and carried no credential
C1_Witness ==
    /\ ThroughRequest
    /\ is_authenticated /\ ~IsNone(consumer_key) /\ ~IsNone(passport)
    /\ Len(calls) = 1
    /\ CredentialKeys(calls[1].headers) = {}

SeparatedLogins(t) ==
    \A i, j \in DOMAIN t :
      (i < j /\ t[i] = "login" /\ t[j] = "login") =>
        \E k \in DOMAIN t : i < k /\ k < j /\ t[k] = "logout"

\* C2: a login invoked in an authenticated session issues the remote logout
\* before its remote login (the first remote call is the logout, and a remote
\* login, if issued, comes after it); and in the history of session events two
\* successful remote logins are always separated by a remote logout.
C2_LogoutBeforeLogin ==
    [][/\ (last'.op = "login" /\ is_authenticated) =>
            /\ Len(calls') >= 1
            /\ calls'[1].name = "logout"
            /\ \A i \in DOMAIN calls' : calls'[i].name = "login" => i = 2
       /\ SeparatedLogins(trace')]_vars

\* a second login succeeded in an authenticated session: logout, then login
C2_Witness ==
    /\ last.op = "login" /\ last.outcome = "return"
    /\ Len(calls) = 2 /\ calls[1].name = "logout" /\ calls[2].name = "login"
    /\ trace = <<"login", "logout", "login">>

\* C3 (as claimed): right after a logout of an authenticated session the client
\* holds no Passport.
C3_PassportClearedOnLogout ==
    (last.op = "logout" /\ calls # <<>> /\ last.outcome = "return") => IsNone(passport)

\* C3 (amended): logout never touches the Passport: the Passport of the latest
\* login is still held after a logout of an authenticated session.
C3_PassportKeptOnLogout ==
    [][last'.op = "logout" =>
         /\ passport' = passport
         /\ is_authenticated => ~IsNone(passport')]_vars

\* an authenticated session was logged out and the Passport is still there
C3_Witness ==
    /\ last.op = "logout" /\ last.outcome = "return"
    /\ Len(calls) = 1 /\ calls[1].name = "logout"
    /\ ~is_authenticated /\ ~IsNone(passport)

\* the remote login of the last login call answered, and did not succeed
LoginFailed ==
    /\ last.op = "login"
    /\ ~IsNone(last.reply)
    /\ IsFault(The(last.reply)) \/ ~The(last.reply).status.isSuccess

C5_UnsupportedAlgorithm ==
    (/\ ThroughRequest
     /\ ~is_authenticated
     /\ ~IsNone(consumer_key)
     /\ The(signature_algorithm) \notin SupportedAlgorithms) =>
      /\ calls = <<>>
      /\ last.outcome = "raise"
      /\ ConfigurationError(last.error)

\* a request reached token signing with an unsupported algorithm on a client
\* built without an account, and ended in a TypeError
C5_Divergence ==
    /\ ThroughRequest
    /\ ~is_authenticated /\ ~IsNone(consumer_key)
    /\ The(signature_algorithm) \notin SupportedAlgorithms
    /\ IsNone(account)
    /\ last.error.cls = "TypeError"

OpsWithStatus == {"get", "getAll", "search", "searchMoreWithId", "upsert", "upsertList",
                  "login"}
IsFailed(response) == ~response.status.isSuccess
\* the non-success statuses of a reply, in the order the operation reads them
FailedStatuses(op, reply) ==
    IF op = "upsertList"
    THEN LET failed == SelectSeq(The(reply.body).writeResponse, IsFailed)
         IN  [i \in DOMAIN failed |-> failed[i].status]
    ELSE IF reply.status.isSuccess THEN <<>> ELSE <<reply.status>>
\* the last operation got a response (no fault) holding a non-success status
GotFailedStatus ==
    /\ last.op \in OpsWithStatus
    /\ ~IsNone(last.reply)
    /\ ~IsFault(The(last.reply))
    /\ FailedStatuses(last.op, The(last.reply)) # <<>>

\* C6: get, getAll, search, searchMoreWithId, upsert, upsertList and login never
\* return normally on a response holding a non-success status: they raise the
\* error built by _request_error (NetSuiteLoginError for login,
\* NetSuiteRequestError otherwise) carrying the message and the code of the first
\* statusDetail entry of the (first) non-success status.
C6_FailedStatusRaises ==
    GotFailedStatus =>
      LET detail == FailedStatuses(last.op, The(last.reply))[1].statusDetail[1]
      IN  /\ last.outcome = "raise"
          /\ last.error.cls = IF last.op = "login" THEN "NetSuiteLoginError"
                              ELSE "NetSuiteRequestError"
          /\ last.error.code = Some(detail.code)
          /\ last.error.message =
               <<"An error occured in a ", last.op, " request: ", detail.message>>

\* a search got a non-success status with two statusDetail entries
C6_Witness ==
    /\ GotFailedStatus
    /\ last.op = "search"
    /\ Len(The(last.reply).status.statusDetail) = 2
    /\ last.outcome = "raise"

\* C7: logout in a session that is not authenticated issues no remote call,
\* returns nothing and leaves the session, the Passport and the token
\* credentials unchanged; in an authenticated session it issues exactly one
\* remote call, the logout, and what it returns is the status of the reply.
C7_Logout ==
    [][last'.op = "logout" =>
         /\ ~is_authenticated =>
              /\ calls' = <<>>
              /\ last'.outcome = "return"
              /\ IsNone(last'.value)
              /\ UNCHANGED <<session, passport, token_credentials>>
         /\ is_authenticated =>
              /\ Len(calls') = 1
              /\ calls'[1].name = "logout"
              /\ last'.outcome = "return" =>
                   last'.value = Some(The(last'.reply).status)]_vars

\* a logout in a session that is not authenticated, after the session had been
\* authenticated and logged out once
C7_Witness ==
    /\ last.op = "logout" /\ last.outcome = "return"
    /\ calls = <<>>
    /\ IsNone(last.value)
    /\ trace = <<"login", "logout">>

\* C8: the session state (is_authenticated, user, roles) changes only in login
\* and logout: every other operation, returning or raising, leaves it as it was.
C8_SessionFrame ==
    [][last'.op \notin {"login", "logout"} => UNCHANGED session]_vars

\* a request raised in an authenticated session, which is still authenticated
C8_Witness ==
    /\ last.op \in RequestOps
    /\ last.outcome = "raise"
    /\ is_authenticated /\ ~IsNone(user) /\ ~IsNone(roles)

\* the search preferences in force: the latest set_search_preferences call's, or
\* the defaults
PreferencesInForce ==
    IF IsNone(prefs_set)
    THEN [bodyFieldsOnly |-> TRUE, pageSize |-> 5, returnSearchColumns |-> FALSE]
    ELSE [bodyFieldsOnly |-> The(prefs_set)[1], pageSize |-> The(prefs_set)[2],
          returnSearchColumns |-> The(prefs_set)[3]]

\* C9: every remote search call carries a searchPreferences header equal to the
\* arguments of the latest set_search_preferences call before it, or to the
\* defaults (bodyFieldsOnly=true, pageSize=5, returnSearchColumns=false) when
\* there was none.
C9_SearchPreferences ==
    \A i \in DOMAIN calls :
      calls[i].name = "search" =>
        /\ "searchPreferences" \in DOMAIN calls[i].headers
        /\ calls[i].headers["searchPreferences"] = PreferencesInForce

\* a search went out after the preferences were set to other values than the
\* defaults
C9_Witness ==
    /\ Len(calls) = 1 /\ calls[1].name = "search"
    /\ ~IsNone(prefs_set)
    /\ calls[1].headers["searchPreferences"].pageSize = 10

\* goto_page issued a searchMoreWithId (searchId, pageIndex) for a page index
\* outside 1..totalPages of that search
WentOutOfRange ==
    /\ last.op = "goto_page"
    /\ calls # <<>>
    /\ calls[1].args[2] < 1 \/ calls[1].args[2] > TotalPagesOf(calls[1].args[1])

\* C10: navigating a cursor to a page index below 1 or above totalPages fails:
\* the searchMoreWithId call issued for that index never yields a result page;
\* its reply is a non-success status, raised as a NetSuiteRequestError carrying
\* the first statusDetail entry (or a fault of the transport), and the cursor
\* stays on its page.
C10_PageOutOfRange ==
    WentOutOfRange =>
      /\ calls[1].name = "searchMoreWithId"
      /\ last.outcome = "raise"
      /\ ~IsFault(The(last.reply)) =>
           /\ ~The(last.reply).status.isSuccess
           /\ last.error.cls = "NetSuiteRequestError"
           /\ last.error.code = Some(The(last.reply).status.statusDetail[1].code)
      /\ ~IsNone(cursor)
      /\ The(cursor).searchId = calls[1].args[1]
      /\ The(cursor).pageIndex # calls[1].args[2]

\* a cursor over a three page search was sent to page 4 and the request error
\* came back
C10_Witness ==
    /\ WentOutOfRange
    /\ The(cursor).totalPages = 3
    /\ calls[1].args[2] = 4
    /\ last.error.cls = "NetSuiteRequestError"

\* the remote calls of the last operation that carry a tokenPassport
TokenCalls(cs) == {i \in DOMAIN cs : "tokenPassport" \in DOMAIN cs[i].headers}
\* the nonce and the timestamp that went into the signature of a TokenPassport
SignedNonce(tp) == tp.signature.value[4][4]
SignedTimestamp(tp) == tp.signature.value[4][5]
\* the fields of the client
client == <<account, session, passport, app_info, token_credentials, search_preferences>>

\* C11: a TokenPassport is generated for the request it goes out with and for
\* no other: an operation that goes through request while the client
\* authenticates by token reads the random source and the clock once, during
\* that operation; a remote call carrying a tokenPassport carries (in its
\* fields and under its signature) the nonce and the timestamp read during that
\* same operation, which issues no second call; and the operation stores
\* nothing on the client, whose fields it leaves as they were.
C11_TokenPassportSingleUse ==
    [][/\ (ThroughRequest' /\ GeneratesTokenPassport) => Len(drawn') = 1
       /\ \A i \in TokenCalls(calls') :
            LET tp == calls'[i].headers["tokenPassport"]
            IN  /\ Len(calls') = 1
                /\ Len(drawn') = 1
                /\ tp.nonce = drawn'[1].nonce
                /\ tp.timestamp = drawn'[1].timestamp
                /\ SignedNonce(tp) = drawn'[1].nonce
                /\ SignedTimestamp(tp) = drawn'[1].timestamp
                /\ UNCHANGED client
                /\ \A f \in {user', passport', app_info'} : f # Some(tp)]_vars

\* a request went out with a TokenPassport made of the second nonce of the
\* random source, drawn during that request
C11_Witness ==
    /\ ThroughRequest
    /\ TokenCalls(calls) = {1}
    /\ drawn = <<[nonce |-> 1, timestamp |-> 1000]>>
    /\ calls[1].headers["tokenPassport"].nonce = 1

\* the fields of a record whose value is not None
SetFields(record) == {i \in DOMAIN record : ~IsNone(record[i][2])}
\* the place of an entry of a mapping among the fields of the record
FieldOf(record, entry) == CHOOSE i \in DOMAIN record : record[i][1] = entry[1]

\* C12: without include_none_values, the mapping to_json returns holds exactly
\* the fields of the record whose value is not None: every entry is such a
\* field with its value as it is in the record, every such field has an entry,
\* no field has two, and the entries follow the declaration order of the
\* fields; with include_none_values it holds every field of the record in
\* declaration order, a field that is not set with the value None.
C12_ToJson ==
    ~IsNone(codec.returned) =>
      LET record == codec.record
          values == The(codec.returned)
      IN  IF codec.include_none_values
          THEN /\ Len(values) = Len(record)
               /\ \A i \in DOMAIN record : values[i] = record[i]
          ELSE /\ Len(values) = Cardinality(SetFields(record))
               /\ \A j \in DOMAIN values :
                    /\ \E i \in SetFields(record) : values[j] = record[i]
                    /\ ~IsNone(values[j][2])
               /\ \A i \in SetFields(record) : \E j \in DOMAIN values : values[j] = record[i]
               /\ \A j, k \in DOMAIN values :
                    j < k => FieldOf(record, values[j]) < FieldOf(record, values[k])

\* to_json without include_none_values returned the first and the third field
\* of a record whose second field is not set and whose third is the empty string
C12_Witness ==
    /\ ~codec.include_none_values
    /\ codec.record = <<<<"internalId", Some("x")>>, <<"name", None>>, <<"email", Some("")>>>>
    /\ codec.returned = Some(<<<<"internalId", Some("x")>>, <<"email", Some("")>>>>)

\* the last operation was an upsertList that got its response (no fault)
UpsertListAnswered ==
    /\ last.op = "upsertList"
    /\ ~IsNone(last.reply)
    /\ ~IsFault(The(last.reply))
\* the write responses of that response, one per record, in list order
WriteResponsesOf(reply) == The(reply.body).writeResponse
FailedResponses(ws) == {i \in DOMAIN ws : ~ws[i].status.isSuccess}

\* C13: upsertList returns the record references, one per write response in
\* list order, only when every write response succeeded; otherwise it raises
\* the NetSuiteRequestError of the first statusDetail entry of the first write
\* response (in list order) that did not succeed, and returns nothing: no
\* reference of a record that succeeded before it.
C13_UpsertListFailFast ==
    UpsertListAnswered =>
      LET ws == WriteResponsesOf(The(last.reply))
          failed == FailedResponses(ws)
      IN  IF failed = {}
          THEN /\ last.outcome = "return"
               /\ last.value = Some([i \in DOMAIN ws |-> The(ws[i].baseRef)])
          ELSE LET first == CHOOSE i \in failed : \A j \in failed : i <= j
                   detail == ws[first].status.statusDetail[1]
               IN  /\ last.outcome = "raise"
                   /\ IsNone(last.value)
                   /\ last.error.cls = "NetSuiteRequestError"
                   /\ last.error.code = Some(detail.code)
                   /\ last.error.message =
                        <<"An error occured in a ", "upsertList", " request: ",
                          detail.message>>

\* an upsertList of two records: the first succeeded, the second did not, and
\* the error of the second was raised
C13_Witness ==
    /\ UpsertListAnswered
    /\ Len(WriteResponsesOf(The(last.reply))) = 2
    /\ FailedResponses(WriteResponsesOf(The(last.reply))) = {2}
    /\ last.outcome = "raise"

\* the page indexes 2..total_pages, in increasing order
PagesAfterFirst(total_pages) == [k \in 1..(total_pages - 1) |-> k + 1]

\* C14 (as claimed): a paginated_search call that ended because its loop ran
\* out (the user never answered 'q', no remote call failed) has handed to
\* goto_page the page indexes 2..totalPages in increasing order, and has shown
\* the records of every page 1..totalPages once, in that order.
C14_WalkReachesEveryPage ==
    walk.pc = "exhausted" =>
      LET total_pages == The(cursor).totalPages
      IN  /\ walk.visited = PagesAfterFirst(total_pages)
          /\ Len(walk.shown) = total_pages
          /\ \A p \in 1..total_pages :
               walk.shown[p] = PageRecords(The(cursor).searchId, p)[1]

\* a paginated_search over a search of three pages ran out after goto_page(2):
\* the records of page 3 were never shown
C14_Divergence ==
    /\ walk.pc = "exhausted"
    /\ The(cursor).totalPages = 3
    /\ walk.visited = <<2>>
    /\ Len(walk.shown) = 2
    /\ The(cursor).pageIndex = 2

\* C15: after every operation, returning or raising, the session is
\* authenticated exactly when a current user is recorded: is_authenticated
\* implies that user is set, and a session that is not authenticated has no
\* user.
C15_AuthenticatedIffUser ==
    /\ is_authenticated => ~IsNone(user)
    /\ ~is_authenticated => IsNone(user)

\* a login raised on the fault of its implicit logout, before any remote login:
\* the session is still authenticated and still has its user
C15_Witness ==
    /\ last.op = "login" /\ last.outcome = "raise"
    /\ Len(calls) = 1 /\ calls[1].name = "logout"
    /\ is_authenticated
    /\ ~IsNone(user)
====
